---- MODULE Spec2Model ----
(***************************************************************************)
(* Stake activation engine of solana-developers/helpers                    *)
(* (src/src/delegation.ts): the warmup walk getStakeAndActivating and the  *)
(* cooldown walk of getStakeActivatingAndDeactivating, one action per loop *)
(* iteration, run by a caller that polls one delegation against one stake   *)
(* history at successive target epochs.                                    *)
(***************************************************************************)
EXTENDS Integers, Sequences, FiniteSets, TLC

\* Epochs 0..MaxEpoch are the target epochs the caller polls and the epochs
\* a delegation can be activated at.
MaxEpoch == 3

Epochs == 0..MaxEpoch

\* deactivationEpoch: MaxEpoch + 1 lies beyond every polled epoch, as the
\* "never deactivated" value 2^64 - 1 does.
DeactivationEpochs == 0..(MaxEpoch + 1)

\* The stake history holds entries of epochs before the last polled one.
HistoryEpochs == 0..(MaxEpoch - 1)

\* delegation.stake
Stakes == {0, 1, 10, 100}

\* Cluster totals of the entries of a history with up to one entry for every
\* epoch (the walks over several epochs).
WalkTotals ==
  [effective : {100},
   activating : {0, 10},
   deactivating : {0, 10}]

\* Cluster totals of the entry of a history with a single entry (one step of
\* a walk, over more ratios of the delegation to the cluster).
StepTotals ==
  [effective : {0, 10, 35, 100},
   activating : {0, 1, 10, 21, 100},
   deactivating : {0, 10, 21, 100}]

\* Cluster totals with nothing effective, so that every share rounds to 0
\* and every step of a walk is the floor of 1.
FloorTotals == [effective |-> 0, activating |-> 10, deactivating |-> 10]

Absent == [absent |-> TRUE]

NoEntry == [epoch |-> -1]

NoResult == [status |-> "none"]

Threw == [status |-> "threw"]

Max(a, b) == IF a >= b THEN a ELSE b

Min(a, b) == IF a <= b THEN a ELSE b

VARIABLES
  delegation,            \* the Delegation argument
  stakeHistory,          \* the StakeHistoryEntry[] argument
  targetEpoch,           \* the targetEpoch argument of the running call
  pc,                    \* position of the running call
  currentEpoch,          \* let currentEpoch of the running walk
  entry,                 \* let entry of the running walk
  currentEffectiveStake, \* let currentEffectiveStake of the running walk
  effective,             \* effective returned by getStakeAndActivating
  activating,            \* activating returned by getStakeAndActivating
  result,                \* what the running call returned
  warmupIters,           \* iterations of the warmup loop in this call
  cooldownIters,         \* iterations of the cooldown loop in this call
  returned               \* what the calls made so far returned, by target epoch

engineVars ==
  <<delegation, stakeHistory, targetEpoch, pc, currentEpoch, entry,
    currentEffectiveStake, effective, activating, result, warmupIters,
    cooldownIters, returned>>

VARIABLES
  epochInfo,             \* what the cluster answers to getEpochInfo
  stakeAccount,          \* what it answers to the fetch of the stake account
  stakeHistoryAccount,   \* what it answers to the fetch of the history sysvar
  fetches,               \* state of the three promises given to Promise.all
  requests,              \* requests sent so far, per promise
  settled,               \* the promises in the order they settled
  rpcPc,                 \* position of the getStakeActivation call
  engineArguments,       \* what getStakeActivation passed to the engine
  stakeActivation        \* the StakeActivation the call resolved with

rpcVars ==
  <<epochInfo, stakeAccount, stakeHistoryAccount, fetches, requests, settled,
    rpcPc, engineArguments, stakeActivation>>

VARIABLES
  codec,                 \* the codec used
  buffer,                \* the bytes given to its decode
  decoded,               \* what decode returned
  encoded,               \* what encode returned for the decoded value
  codecPc                \* position of the decode-then-encode run

codecVars == <<codec, buffer, decoded, encoded, codecPc>>

VARIABLES
  sendFunction,            \* which of the two functions was called
  signers,                 \* signers.length
  feePayer,                \* whether transaction.feePayer is defined
  recentBlockhash,         \* whether transaction.recentBlockhash is defined
  maxRetries,              \* options.maxRetries
  initialDelayMs,          \* options.initialDelayMs
  sendPc,                  \* position of the call
  signature,               \* let signature
  retries,                 \* let retries
  delayBetweenRetries,     \* let delayBetweenRetries
  pollTimeout,             \* let pollTimeout
  signatureStatus,         \* let status
  sendRawTransactionCalls, \* calls of connection.sendRawTransaction so far
  statusUpdates,           \* the statuses given to onStatusUpdate so far
  sendResult               \* what the call returned or threw

sendVars ==
  <<sendFunction, signers, feePayer, recentBlockhash, maxRetries,
    initialDelayMs, sendPc, signature, retries, delayBetweenRetries,
    pollTimeout, signatureStatus, sendRawTransactionCalls, statusUpdates,
    sendResult>>

VARIABLES
  balance,               \* lamports of the account, as processed
  finalizedBalance,      \* lamports of the account, as finalized
  airdropTx,             \* the airdrop transaction of the running call
  airdropPc,             \* position of the airdropIfRequired call
  airdropAmount,         \* the airdropAmount argument
  minimumBalance,        \* the minimumBalance argument
  balanceRead,           \* const balance of airdropIfRequired
  airdropRequests,       \* calls of connection.requestAirdrop in this call
  airdropResult          \* what the call returned or threw

airdropVars ==
  <<balance, finalizedBalance, airdropTx, airdropPc, airdropAmount,
    minimumBalance, balanceRead, airdropRequests, airdropResult>>

outsideEngine == <<rpcVars, codecVars, sendVars, airdropVars>>

outsideRpc == <<engineVars, codecVars, sendVars, airdropVars>>

outsideCodec == <<engineVars, rpcVars, sendVars, airdropVars>>

outsideSend == <<engineVars, rpcVars, codecVars, airdropVars>>

outsideAirdrop == <<engineVars, rpcVars, codecVars, sendVars>>

vars == <<engineVars, rpcVars, codecVars, sendVars, airdropVars>>

\* The entries of table tab, newest epoch first, one entry per tracked epoch.
RECURSIVE HistoryFrom(_, _)
HistoryFrom(tab, e) ==
  IF e < 0 THEN <<>>
  ELSE IF tab[e] = Absent THEN HistoryFrom(tab, e - 1)
  ELSE <<[epoch |-> e,
          effective |-> tab[e].effective,
          activating |-> tab[e].activating,
          deactivating |-> tab[e].deactivating]>> \o HistoryFrom(tab, e - 1)

\* getStakeHistoryEntry: the first entry of the list with that epoch, or null.
RECURSIVE getStakeHistoryEntry(_, _)
getStakeHistoryEntry(epoch, history) ==
  IF history = <<>> THEN NoEntry
  ELSE IF Head(history).epoch = epoch THEN Head(history)
  ELSE getStakeHistoryEntry(epoch, Tail(history))

\* Round to the nearest integer, ties up, of the exact quotient num / den.
RoundHalfUp(num, den) == (2 * num + den) \div (2 * den)

\* Triples <<amount, cluster effective, cluster in flight>>, among the amounts
\* up to 100 and the cluster totals above, at which the exact share
\* amount * effective * 9 / (inFlight * 100) is half-way between two integers
\* and the double-precision product (amount / inFlight) * (effective * 0.09)
\* lies below it (the double 0.09 is less than 9/100), so that Math.round
\* rounds down. At every other triple of these the double-precision product
\* rounds as the exact share does.
TieRoundsDown ==
  {<<10, 35, 21>>, <<15, 10, 1>>, <<25, 10, 1>>, <<35, 10, 1>>, <<45, 10, 1>>,
   <<55, 10, 1>>, <<65, 10, 1>>, <<85, 10, 1>>, <<95, 10, 1>>}

\* Math.round(weight * newlyEffectiveClusterStake) with
\* weight = Number(amount) / Number(inFlight) and
\* newlyEffectiveClusterStake = Number(clusterEffective) * 0.09, inFlight > 0.
RoundedShare(amount, clusterEffective, inFlight) ==
  IF <<amount, clusterEffective, inFlight>> \in TieRoundsDown
  THEN RoundHalfUp(amount * clusterEffective * 9, inFlight * 100) - 1
  ELSE RoundHalfUp(amount * clusterEffective * 9, inFlight * 100)

\* MinimumStep without the floor of 1.
MinimumStepWithoutFloor(share) == share

\* Math.max(1, share)
MinimumStep(share) == Max(1, share)

Pair(e, a) == [effective |-> e, activating |-> a]

Triple(e, a, d) ==
  [status |-> "ok", effective |-> e, activating |-> a, deactivating |-> d]

\* InstantlyDeactivated with the stake reported as activating.
InstantlyDeactivatedStillActivating(stake) == Pair(0, stake)

\* activationEpoch === deactivationEpoch: no stake at all.
InstantlyDeactivated(stake) == Pair(0, 0)

\* AllActivating with the stake dropped, as in the branch that follows it.
AllActivatingReportsNothing(stake) == Pair(0, 0)

\* AllActivating with the stake reported as effective at once.
AllActivatingAlreadyEffective(stake) == Pair(stake, 0)

\* targetEpoch === activationEpoch: all is activating.
AllActivating(stake) == Pair(0, stake)

\* targetEpoch < activationEpoch: not yet enabled.
NotYetEnabled(stake) == Pair(0, 0)

\* A variant that returns the stake as still activating.
FullyEffectiveStillActivating(stake) == Pair(0, stake)

\* No history entry at the activation epoch: assume fully effective.
FullyEffective(stake) == Pair(stake, 0)

\* The return after the warmup loop.
AfterWarmup(stake, current) == Pair(current, stake - current)

\* WarmupStep without the clamp to the stake.
WarmupStepOvershoots(stake, current, en) ==
  current
    + MinimumStep(RoundedShare(stake - current, en.effective, en.activating))

\* WarmupStep with the newly effective stake assigned (=) instead of added
\* (+=) to the accumulated effective stake.
WarmupStepForgetsAccumulated(stake, current, en) ==
  LET remaining == stake - current
      newlyEffectiveStake ==
        MinimumStep(RoundedShare(remaining, en.effective, en.activating))
  IN  IF newlyEffectiveStake >= stake THEN stake ELSE newlyEffectiveStake

\* The body of the warmup loop up to its first break: the accumulated
\* effective stake after one more epoch, given history entry en.
WarmupStep(stake, current, en) ==
  LET remaining == stake - current
      newlyEffectiveStake ==
        MinimumStep(RoundedShare(remaining, en.effective, en.activating))
      sum == current + newlyEffectiveStake
  IN  IF sum >= stake THEN stake ELSE sum

\* WarmupStops with the break left out: the walk runs on while the history
\* has entries.
WarmupNeverStops(epoch, target, deactivation) == FALSE

\* WarmupStops without the cap at the deactivation epoch.
WarmupStopsAtTargetOnly(epoch, target, deactivation) == epoch >= target

\* The second break of the warmup loop.
WarmupStops(epoch, target, deactivation) ==
  epoch >= target \/ epoch >= deactivation

\* targetEpoch < deactivationEpoch: nothing deactivates.
BeforeDeactivation(e, a) == Triple(e, a, 0)

\* AtDeactivation with the activating amount passed through.
AtDeactivationKeepsActivating(e, a) == Triple(e, a, e)

\* AtDeactivation with nothing deactivating yet.
AtDeactivationNothingDeactivates(e, a) == Triple(e, 0, 0)

\* targetEpoch == deactivationEpoch: can only deactivate what's activated.
AtDeactivation(e, a) == Triple(e, 0, e)

\* A variant that keeps what the warmup returned.
CooledDownKeepsEffective == Triple(effective, 0, effective)

\* No history entry at the deactivation epoch.
CooledDown == Triple(0, 0, 0)

\* The return after the cooldown loop.
AfterCooldown(current) == Triple(current, 0, current)

\* CooldownStep without the clamp to 0.
CooldownStepUnderflows(current, en) ==
  current
    - MinimumStep(RoundedShare(current, en.effective, en.deactivating))

\* The body of the cooldown loop after its first break: the effective stake
\* left after one more epoch, given history entry en.
CooldownStep(current, en) ==
  LET newlyNotEffectiveStake ==
        MinimumStep(RoundedShare(current, en.effective, en.deactivating))
      rest == current - newlyNotEffectiveStake
  IN  IF rest <= 0 THEN 0 ELSE rest

\* A variant that stops one epoch before the target.
CooldownStopsEarly(epoch, target) == epoch >= target - 1

\* The second break of the cooldown loop.
CooldownStops(epoch, target) == epoch >= target

Entry(e, totals) ==
  [epoch |-> e,
   effective |-> totals.effective,
   activating |-> totals.activating,
   deactivating |-> totals.deactivating]

Delegations ==
  [stake : Stakes,
   activationEpoch : Epochs,
   deactivationEpoch : DeactivationEpochs]

\* Histories with up to one entry per epoch, histories of one entry, and the
\* history of floor totals for every epoch.
InitHistory ==
  \/ \E tab \in [HistoryEpochs -> WalkTotals \cup {Absent}] :
       stakeHistory = HistoryFrom(tab, MaxEpoch - 1)
  \/ \E e \in HistoryEpochs, totals \in StepTotals :
       stakeHistory = <<Entry(e, totals)>>
  \/ stakeHistory = HistoryFrom([e \in HistoryEpochs |-> FloorTotals],
                               MaxEpoch - 1)

\* No call of the engine has been made.
EngineIdle ==
  /\ targetEpoch = -1
  /\ pc = "idle"
  /\ currentEpoch = 0
  /\ entry = NoEntry
  /\ currentEffectiveStake = 0
  /\ effective = 0
  /\ activating = 0
  /\ result = NoResult
  /\ warmupIters = 0
  /\ cooldownIters = 0
  /\ returned = [t \in Epochs |-> NoResult]

\* No call of getStakeActivation has been made and none will be.
RpcUnused ==
  /\ epochInfo = NoResult
  /\ stakeAccount = NoResult
  /\ stakeHistoryAccount = NoResult
  /\ fetches = <<>>
  /\ requests = <<>>
  /\ settled = <<>>
  /\ rpcPc = "unused"
  /\ engineArguments = NoResult
  /\ stakeActivation = NoResult

\* No buffer is decoded.
CodecUnused ==
  /\ codec = "unused"
  /\ buffer = <<>>
  /\ decoded = NoResult
  /\ encoded = NoResult
  /\ codecPc = "unused"

\* The engine is given nothing and is not called.
EngineUnused ==
  /\ delegation = NoResult
  /\ stakeHistory = <<>>
  /\ EngineIdle

\* No transaction is sent.
SendUnused ==
  /\ sendFunction = "unused"
  /\ signers = 0
  /\ feePayer = FALSE
  /\ recentBlockhash = FALSE
  /\ maxRetries = 0
  /\ initialDelayMs = 0
  /\ sendPc = "unused"
  /\ signature = NoResult
  /\ retries = 0
  /\ delayBetweenRetries = 0
  /\ pollTimeout = 0
  /\ signatureStatus = "null"
  /\ sendRawTransactionCalls = 0
  /\ statusUpdates = <<>>
  /\ sendResult = NoResult

\* No airdrop is asked for.
AirdropUnused ==
  /\ balance = 0
  /\ finalizedBalance = 0
  /\ airdropTx = "unused"
  /\ airdropPc = "unused"
  /\ airdropAmount = 0
  /\ minimumBalance = 0
  /\ balanceRead = 0
  /\ airdropRequests = 0
  /\ airdropResult = NoResult

Init ==
  /\ delegation \in Delegations
  /\ InitHistory
  /\ EngineIdle
  /\ RpcUnused
  /\ CodecUnused
  /\ SendUnused
  /\ AirdropUnused

\* getStakeAndActivating returns r.
WarmupReturns(r) ==
  /\ effective' = r.effective
  /\ activating' = r.activating
  /\ pc' = "deactivate"

\* getStakeActivatingAndDeactivating returns r to the caller.
Returns(r) ==
  /\ result' = r
  /\ returned' = [returned EXCEPT ![targetEpoch] = r]
  /\ pc' = "returned"

\* BigInt() of Infinity or NaN throws a RangeError out of both functions.
Throws ==
  /\ result' = Threw
  /\ returned' = [returned EXCEPT ![targetEpoch] = Threw]
  /\ pc' = "threw"

\* The warmup loop of getStakeAndActivating as one evaluation: entry en of
\* epoch was found and current is the effective stake accumulated before it.
RECURSIVE WarmupWalk(_, _, _, _, _, _)
WarmupWalk(d, t, history, epoch, en, current) ==
  IF en.activating = 0 THEN Threw
  ELSE LET sum == WarmupStep(d.stake, current, en)
           next == getStakeHistoryEntry(epoch + 1, history)
       IN  IF \/ sum >= d.stake
              \/ WarmupStops(epoch + 1, t, d.deactivationEpoch)
              \/ next = NoEntry
           THEN AfterWarmup(d.stake, sum)
           ELSE WarmupWalk(d, t, history, epoch + 1, next, sum)

\* getStakeAndActivating as one evaluation.
getStakeAndActivating(d, t, history) ==
  LET first == getStakeHistoryEntry(d.activationEpoch, history)
  IN  IF d.activationEpoch = d.deactivationEpoch
      THEN InstantlyDeactivated(d.stake)
      ELSE IF t = d.activationEpoch THEN AllActivating(d.stake)
      ELSE IF t < d.activationEpoch THEN NotYetEnabled(d.stake)
      ELSE IF first = NoEntry THEN FullyEffective(d.stake)
      ELSE WarmupWalk(d, t, history, d.activationEpoch, first, 0)

\* The cooldown loop of getStakeActivatingAndDeactivating as one evaluation.
RECURSIVE CooldownWalk(_, _, _, _, _)
CooldownWalk(t, history, epoch, en, current) ==
  IF en.deactivating = 0 THEN AfterCooldown(current)
  ELSE LET rest == CooldownStep(current, en)
           next == getStakeHistoryEntry(epoch + 1, history)
       IN  IF \/ rest <= 0
              \/ CooldownStops(epoch + 1, t)
              \/ next = NoEntry
           THEN AfterCooldown(rest)
           ELSE CooldownWalk(t, history, epoch + 1, next, rest)

\* getStakeActivatingAndDeactivating as one evaluation, as a caller that
\* does not observe its loops runs it.
getStakeActivatingAndDeactivating(d, t, history) ==
  LET ea == getStakeAndActivating(d, t, history)
      first == getStakeHistoryEntry(d.deactivationEpoch, history)
  IN  IF ea = Threw THEN Threw
      ELSE IF t < d.deactivationEpoch
      THEN BeforeDeactivation(ea.effective, ea.activating)
      ELSE IF t = d.deactivationEpoch
      THEN AtDeactivation(ea.effective, ea.activating)
      ELSE IF first = NoEntry THEN CooledDown
      ELSE CooldownWalk(t, history, d.deactivationEpoch, first, ea.effective)

\* The caller asks for the next epoch: getStakeActivatingAndDeactivating is
\* entered and getStakeAndActivating runs up to its loop.
Call ==
  /\ UNCHANGED outsideEngine
  /\ pc \in {"idle", "returned", "threw"}
  /\ targetEpoch < MaxEpoch
  /\ targetEpoch' = targetEpoch + 1
  /\ result' = NoResult
  /\ warmupIters' = 0
  /\ cooldownIters' = 0
  /\ UNCHANGED <<delegation, stakeHistory, returned>>
  /\ LET t == targetEpoch + 1
         first == getStakeHistoryEntry(delegation.activationEpoch, stakeHistory)
     IN  IF delegation.activationEpoch = delegation.deactivationEpoch
         THEN /\ WarmupReturns(InstantlyDeactivated(delegation.stake))
              /\ UNCHANGED <<currentEpoch, entry, currentEffectiveStake>>
         ELSE IF t = delegation.activationEpoch
         THEN /\ WarmupReturns(AllActivating(delegation.stake))
              /\ UNCHANGED <<currentEpoch, entry, currentEffectiveStake>>
         ELSE IF t < delegation.activationEpoch
         THEN /\ WarmupReturns(NotYetEnabled(delegation.stake))
              /\ UNCHANGED <<currentEpoch, entry, currentEffectiveStake>>
         ELSE /\ currentEpoch' = delegation.activationEpoch
              /\ entry' = first
              /\ IF first # NoEntry
                 THEN /\ currentEffectiveStake' = 0
                      /\ pc' = "warmup"
                      /\ UNCHANGED <<effective, activating>>
                 ELSE /\ WarmupReturns(FullyEffective(delegation.stake))
                      /\ UNCHANGED currentEffectiveStake

\* One iteration of the warmup loop, and the return that follows its exit.
WarmupIter ==
  /\ UNCHANGED outsideEngine
  /\ pc = "warmup"
  /\ warmupIters' = warmupIters + 1
  /\ currentEpoch' = currentEpoch + 1
  /\ UNCHANGED <<delegation, stakeHistory, targetEpoch, cooldownIters>>
  /\ IF entry.activating = 0
     THEN /\ Throws
          /\ UNCHANGED <<entry, currentEffectiveStake, effective, activating>>
     ELSE LET sum == WarmupStep(delegation.stake, currentEffectiveStake, entry)
              next == getStakeHistoryEntry(currentEpoch + 1, stakeHistory)
          IN  /\ UNCHANGED <<result, returned>>
              /\ currentEffectiveStake' = sum
              /\ IF sum >= delegation.stake
                 THEN /\ UNCHANGED entry
                      /\ WarmupReturns(AfterWarmup(delegation.stake, sum))
                 ELSE IF WarmupStops(currentEpoch + 1, targetEpoch,
                                     delegation.deactivationEpoch)
                 THEN /\ UNCHANGED entry
                      /\ WarmupReturns(AfterWarmup(delegation.stake, sum))
                 ELSE /\ entry' = next
                      /\ IF next # NoEntry
                         THEN /\ pc' = "warmup"
                              /\ UNCHANGED <<effective, activating>>
                         ELSE WarmupReturns(AfterWarmup(delegation.stake, sum))

\* getStakeActivatingAndDeactivating after getStakeAndActivating returned, up
\* to its loop.
Deactivate ==
  /\ UNCHANGED outsideEngine
  /\ pc = "deactivate"
  /\ UNCHANGED <<delegation, stakeHistory, targetEpoch, effective, activating,
                 warmupIters, cooldownIters>>
  /\ LET first == getStakeHistoryEntry(delegation.deactivationEpoch,
                                       stakeHistory)
     IN  IF targetEpoch < delegation.deactivationEpoch
         THEN /\ Returns(BeforeDeactivation(effective, activating))
              /\ UNCHANGED <<currentEpoch, entry, currentEffectiveStake>>
         ELSE IF targetEpoch = delegation.deactivationEpoch
         THEN /\ Returns(AtDeactivation(effective, activating))
              /\ UNCHANGED <<currentEpoch, entry, currentEffectiveStake>>
         ELSE /\ currentEpoch' = delegation.deactivationEpoch
              /\ entry' = first
              /\ IF first # NoEntry
                 THEN /\ currentEffectiveStake' = effective
                      /\ pc' = "cooldown"
                      /\ UNCHANGED <<result, returned>>
                 ELSE /\ Returns(CooledDown)
                      /\ UNCHANGED currentEffectiveStake

\* One iteration of the cooldown loop, and the return that follows its exit.
CooldownIter ==
  /\ UNCHANGED outsideEngine
  /\ pc = "cooldown"
  /\ cooldownIters' = cooldownIters + 1
  /\ currentEpoch' = currentEpoch + 1
  /\ UNCHANGED <<delegation, stakeHistory, targetEpoch, effective, activating,
                 warmupIters>>
  /\ IF entry.deactivating = 0
     THEN /\ UNCHANGED <<entry, currentEffectiveStake>>
          /\ Returns(AfterCooldown(currentEffectiveStake))
     ELSE LET rest == CooldownStep(currentEffectiveStake, entry)
              next == getStakeHistoryEntry(currentEpoch + 1, stakeHistory)
          IN  /\ currentEffectiveStake' = rest
              /\ IF rest <= 0
                 THEN /\ UNCHANGED entry
                      /\ Returns(AfterCooldown(rest))
                 ELSE IF CooldownStops(currentEpoch + 1, targetEpoch)
                 THEN /\ UNCHANGED entry
                      /\ Returns(AfterCooldown(rest))
                 ELSE /\ entry' = next
                      /\ IF next # NoEntry
                         THEN /\ pc' = "cooldown"
                              /\ UNCHANGED <<result, returned>>
                         ELSE Returns(AfterCooldown(rest))

Next ==
  \/ Call
  \/ WarmupIter
  \/ Deactivate
  \/ CooldownIter

Spec == Init /\ [][Next]_vars

(***************************************************************************)
(* getStakeActivation (src/src/rpc.ts): three fetches given to Promise.all, *)
(* settled by the cluster in any order, then the synchronous rest of the   *)
(* function: the discriminant test, the engine and the status.             *)
(***************************************************************************)

\* epochInfo.epoch is drawn from 0..RpcMaxEpoch, and the history sysvar
\* holds entries of the epochs before RpcMaxEpoch.
RpcMaxEpoch == 2

Fetches == {"epochInfo", "stakeAccount", "stakeHistory"}

\* stakeAccount.data.discriminant, a u32 the codec accepts whatever it is.
Discriminants == {0, 1, 2, 3}

\* stakeAccount.lamports
Lamports == {3, 12, 20}

\* stakeAccount.data.meta.rentExemptReserve
RentExemptReserves == {5}

\* stakeAccount.data.stake.delegation
RpcDelegations ==
  [stake : {0, 10},
   activationEpoch : {0},
   deactivationEpoch : {1, RpcMaxEpoch + 1}]

\* Cluster totals of the entries of the history sysvar.
RpcTotals ==
  {[effective |-> 100, activating |-> 10, deactivating |-> 10],
   [effective |-> 100, activating |-> 0, deactivating |-> 10]}

\* How a fetch ends: with the account, with a transport error, with no
\* account at the address, or with data the codec cannot read.
EpochInfos == [outcome : {"ok", "error"}, epoch : 0..RpcMaxEpoch]

StakeAccounts ==
  [outcome : {"ok", "missing", "undecodable"},
   lamports : Lamports,
   discriminant : Discriminants,
   rentExemptReserve : RentExemptReserves,
   delegation : RpcDelegations]

StakeHistoryAccounts ==
  {[outcome |-> o, data |-> HistoryFrom(tab, RpcMaxEpoch - 1)] :
     o \in {"ok", "error"},
     tab \in [0..(RpcMaxEpoch - 1) -> RpcTotals \cup {Absent}]}

UninitializedIsDelegated(discriminant) == discriminant = 1

\* if (stakeAccount.data.discriminant === 0) throw new Error("")
Uninitialized(discriminant) == discriminant = 0

\* if (stakeAccount.data.discriminant === 1)
NoDelegation(discriminant) == discriminant = 1

InactiveActivationKeepsReserve(lamports, rentExemptReserve) ==
  [status |-> "inactive", active |-> 0, inactive |-> lamports]

\* What getStakeActivation returns for an account with no delegation.
InactiveActivation(lamports, rentExemptReserve) ==
  [status |-> "inactive", active |-> 0,
   inactive |-> lamports - rentExemptReserve]

StatusActiveFirst(r) ==
  IF r.deactivating > 0 THEN "deactivating"
  ELSE IF r.effective > 0 THEN "active"
  ELSE IF r.activating > 0 THEN "activating"
  ELSE "inactive"

\* let status
Status(r) ==
  IF r.deactivating > 0 THEN "deactivating"
  ELSE IF r.activating > 0 THEN "activating"
  ELSE IF r.effective > 0 THEN "active"
  ELSE "inactive"

InactiveKeepsReserve(lamports, eff, rentExemptReserve) == lamports - eff

\* const inactive, a bigint: the subtraction neither wraps nor throws.
Inactive(lamports, eff, rentExemptReserve) ==
  lamports - eff - rentExemptReserve

\* What getStakeActivation returns after the engine returned r.
DelegatedActivation(lamports, rentExemptReserve, r) ==
  [status |-> Status(r), active |-> r.effective,
   inactive |-> Inactive(lamports, r.effective, rentExemptReserve)]

\* Whether the promise of fetch f fulfils, once the cluster has answered.
Fulfils(f) ==
  IF f = "epochInfo" THEN epochInfo.outcome = "ok"
  ELSE IF f = "stakeAccount"
  THEN /\ stakeAccount.outcome = "ok"
       /\ ~Uninitialized(stakeAccount.discriminant)
  ELSE stakeHistoryAccount.outcome = "ok"

PromiseAllSettled(promises) ==
  \A f \in Fetches : promises[f] \in {"fulfilled", "rejected"}

\* Promise.all fulfils when every promise has fulfilled.
PromiseAllFulfilled(promises) ==
  \A f \in Fetches : promises[f] = "fulfilled"

\* Promise.all rejects when one promise has rejected.
PromiseAllRejected(promises) ==
  \E f \in Fetches : promises[f] = "rejected"

InitRpc ==
  /\ EngineUnused
  /\ CodecUnused
  /\ SendUnused
  /\ AirdropUnused
  /\ epochInfo \in EpochInfos
  /\ stakeAccount \in StakeAccounts
  /\ stakeHistoryAccount \in StakeHistoryAccounts
  /\ fetches = [f \in Fetches |-> "unsent"]
  /\ requests = [f \in Fetches |-> 0]
  /\ settled = <<>>
  /\ rpcPc = "idle"
  /\ engineArguments = NoResult
  /\ stakeActivation = NoResult

\* getStakeActivation is called: the three elements of the array given to
\* Promise.all are evaluated, each up to its first await.
GetStakeActivation ==
  /\ rpcPc = "idle"
  /\ rpcPc' = "awaiting"
  /\ fetches' = [f \in Fetches |-> "pending"]
  /\ requests' = [f \in Fetches |-> requests[f] + 1]
  /\ UNCHANGED <<epochInfo, stakeAccount, stakeHistoryAccount, settled,
                 engineArguments, stakeActivation>>
  /\ UNCHANGED outsideRpc

\* The cluster answers fetch f and the promise of f settles: the account is
\* asserted to exist and decoded, and an uninitialized stake account throws.
Settle(f) ==
  /\ fetches[f] = "pending"
  /\ fetches' = [fetches EXCEPT
                   ![f] = IF Fulfils(f) THEN "fulfilled" ELSE "rejected"]
  /\ settled' = Append(settled, f)
  /\ UNCHANGED <<epochInfo, stakeAccount, stakeHistoryAccount, requests,
                 rpcPc, engineArguments, stakeActivation>>
  /\ UNCHANGED outsideRpc

\* The await of Promise.all throws: the call rejects.
RpcRejects ==
  /\ rpcPc = "awaiting"
  /\ PromiseAllRejected(fetches)
  /\ rpcPc' = "rejected"
  /\ UNCHANGED <<epochInfo, stakeAccount, stakeHistoryAccount, fetches,
                 requests, settled, engineArguments, stakeActivation>>
  /\ UNCHANGED outsideRpc

\* The await of Promise.all returns and the rest of the function runs.
RpcContinues ==
  /\ rpcPc = "awaiting"
  /\ PromiseAllFulfilled(fetches)
  /\ UNCHANGED <<epochInfo, stakeAccount, stakeHistoryAccount, fetches,
                 requests, settled>>
  /\ UNCHANGED outsideRpc
  /\ LET rentExemptReserve == stakeAccount.rentExemptReserve
         r == getStakeActivatingAndDeactivating(
                stakeAccount.delegation, epochInfo.epoch,
                stakeHistoryAccount.data)
     IN  IF NoDelegation(stakeAccount.discriminant)
         THEN /\ stakeActivation' =
                   InactiveActivation(stakeAccount.lamports, rentExemptReserve)
              /\ rpcPc' = "resolved"
              /\ UNCHANGED engineArguments
         ELSE /\ engineArguments' =
                   [delegation |-> stakeAccount.delegation,
                    targetEpoch |-> epochInfo.epoch,
                    stakeHistory |-> stakeHistoryAccount.data]
              /\ IF r = Threw
                 THEN /\ rpcPc' = "rejected"
                      /\ UNCHANGED stakeActivation
                 ELSE /\ rpcPc' = "resolved"
                      /\ stakeActivation' =
                           DelegatedActivation(stakeAccount.lamports,
                                               rentExemptReserve, r)

NextRpc ==
  \/ GetStakeActivation
  \/ \E f \in Fetches : Settle(f)
  \/ RpcRejects
  \/ RpcContinues

SpecRpc == InitRpc /\ [][NextRpc]_vars

(***************************************************************************)
(* stakeAccountCodec and stakeHistoryCodec (src/src/stake.ts): a buffer is *)
(* decoded and the decoded value is encoded again.                         *)
(***************************************************************************)

\* A stake history buffer declares and carries up to MaxEntries entries.
MaxEntries == 2

\* getU32Codec(), getU64Codec() and fixCodecSize(getBytesCodec(), 32)
U32Size == 4

U64Size == 8

PubkeySize == 32

\* The bytes of v, least significant first, as the number codecs write them.
RECURSIVE LittleEndian(_, _)
LittleEndian(v, size) ==
  IF size = 0 THEN <<>>
  ELSE <<v % 256>> \o LittleEndian(v \div 256, size - 1)

\* The number whose bytes are b, least significant first.
RECURSIVE FromLittleEndian(_)
FromLittleEndian(b) ==
  IF b = <<>> THEN 0 ELSE Head(b) + 256 * FromLittleEndian(Tail(b))

\* The size bytes of a buffer that follow its first offset bytes.
BytesAt(bytes, offset, size) == SubSeq(bytes, offset + 1, offset + size)

\* What a number codec reads at offset.
NumberAt(bytes, offset, size) ==
  FromLittleEndian(BytesAt(bytes, offset, size))

\* What decode returns when it does not throw.
Decoded(v) == [status |-> "decoded", value |-> v]

authorizedCodecSize == PubkeySize + PubkeySize

authorizedCodecDecode(bytes, offset) ==
  [staker |-> BytesAt(bytes, offset, PubkeySize),
   withdrawer |-> BytesAt(bytes, offset + PubkeySize, PubkeySize)]

authorizedCodecEncode(v) == v.staker \o v.withdrawer

lockupCodecSize == U64Size + U64Size + PubkeySize

lockupCodecDecode(bytes, offset) ==
  [unixTimestamp |-> NumberAt(bytes, offset, U64Size),
   epoch |-> NumberAt(bytes, offset + U64Size, U64Size),
   custodian |-> BytesAt(bytes, offset + U64Size + U64Size, PubkeySize)]

lockupCodecEncode(v) ==
  LittleEndian(v.unixTimestamp, U64Size) \o LittleEndian(v.epoch, U64Size)
    \o v.custodian

metaCodecSize == U64Size + authorizedCodecSize + lockupCodecSize

metaCodecDecode(bytes, offset) ==
  [rentExemptReserve |-> NumberAt(bytes, offset, U64Size),
   authorized |-> authorizedCodecDecode(bytes, offset + U64Size),
   lockup |->
     lockupCodecDecode(bytes, offset + U64Size + authorizedCodecSize)]

metaCodecEncode(v) ==
  LittleEndian(v.rentExemptReserve, U64Size)
    \o authorizedCodecEncode(v.authorized) \o lockupCodecEncode(v.lockup)

delegationCodecSize == PubkeySize + U64Size + U64Size + U64Size + U64Size

delegationCodecDecode(bytes, offset) ==
  [voterPubkey |-> BytesAt(bytes, offset, PubkeySize),
   stake |-> NumberAt(bytes, offset + PubkeySize, U64Size),
   activationEpoch |->
     NumberAt(bytes, offset + PubkeySize + U64Size, U64Size),
   deactivationEpoch |->
     NumberAt(bytes, offset + PubkeySize + 2 * U64Size, U64Size),
   unused |-> NumberAt(bytes, offset + PubkeySize + 3 * U64Size, U64Size)]

delegationCodecEncode(v) ==
  v.voterPubkey \o LittleEndian(v.stake, U64Size)
    \o LittleEndian(v.activationEpoch, U64Size)
    \o LittleEndian(v.deactivationEpoch, U64Size)
    \o LittleEndian(v.unused, U64Size)

stakeCodecSize == delegationCodecSize + U64Size

stakeCodecDecode(bytes, offset) ==
  [delegation |-> delegationCodecDecode(bytes, offset),
   creditsObserved |->
     NumberAt(bytes, offset + delegationCodecSize, U64Size)]

stakeCodecEncode(v) ==
  delegationCodecEncode(v.delegation)
    \o LittleEndian(v.creditsObserved, U64Size)

stakeAccountCodecSize == U32Size + metaCodecSize + stakeCodecSize

\* stakeAccountCodec.decode(bytes): the fields are read at their offsets
\* from the start of the buffer, a read past its end throws, and bytes after
\* the last field are not looked at.
stakeAccountCodecDecode(bytes) ==
  IF Len(bytes) < stakeAccountCodecSize THEN Threw
  ELSE Decoded([discriminant |-> NumberAt(bytes, 0, U32Size),
                 meta |-> metaCodecDecode(bytes, U32Size),
                 stake |-> stakeCodecDecode(bytes, U32Size + metaCodecSize)])

\* stakeAccountCodec.encode(v)
stakeAccountCodecEncode(v) ==
  LittleEndian(v.discriminant, U32Size) \o metaCodecEncode(v.meta)
    \o stakeCodecEncode(v.stake)

stakeHistoryEntryCodecSize == U64Size + U64Size + U64Size + U64Size

stakeHistoryEntryCodecDecode(bytes, offset) ==
  [epoch |-> NumberAt(bytes, offset, U64Size),
   effective |-> NumberAt(bytes, offset + U64Size, U64Size),
   activating |-> NumberAt(bytes, offset + 2 * U64Size, U64Size),
   deactivating |-> NumberAt(bytes, offset + 3 * U64Size, U64Size)]

stakeHistoryEntryCodecEncode(v) ==
  LittleEndian(v.epoch, U64Size) \o LittleEndian(v.effective, U64Size)
    \o LittleEndian(v.activating, U64Size)
    \o LittleEndian(v.deactivating, U64Size)

EntryOffsetWithoutSize(i) == i * stakeHistoryEntryCodecSize

\* Where the array codec reads item i, counted from 0: after the size
\* prefix and the items before it.
EntryOffset(i) == U64Size + i * stakeHistoryEntryCodecSize

\* stakeHistoryCodec.decode(bytes): the u64 size prefix, then that many
\* entries; a read past the end of the buffer throws, and bytes after the
\* last entry are not looked at.
stakeHistoryCodecDecode(bytes) ==
  IF Len(bytes) < U64Size THEN Threw
  ELSE LET size == NumberAt(bytes, 0, U64Size)
       IN  IF Len(bytes) < EntryOffset(size) THEN Threw
           ELSE Decoded([i \in 1..size |->
                           stakeHistoryEntryCodecDecode(
                             bytes, EntryOffset(i - 1))])

\* The encodings of the items of an array, one after the other.
RECURSIVE EncodeItems(_)
EncodeItems(items) ==
  IF items = <<>> THEN <<>>
  ELSE stakeHistoryEntryCodecEncode(Head(items)) \o EncodeItems(Tail(items))

\* stakeHistoryCodec.encode(v)
stakeHistoryCodecEncode(v) ==
  LittleEndian(Len(v), U64Size) \o EncodeItems(v)

ZeroKey == [i \in 1..PubkeySize |-> 0]

\* The staker and withdrawer of the stake account of decode.test.ts.
TestAuthority ==
  <<133, 0, 79, 231, 141, 29, 73, 61, 232, 35, 119, 124, 168, 12, 120, 216,
    195, 29, 12, 166, 139, 28, 36, 182, 186, 154, 246, 149, 224, 109, 52,
    100>>

Pubkeys == {ZeroKey, TestAuthority}

\* The stake accounts whose bytes are decoded.
CodecStakeAccounts ==
  [discriminant : Discriminants,
   meta : [rentExemptReserve : {5, 2282880},
           authorized : [staker : Pubkeys, withdrawer : Pubkeys],
           lockup : [unixTimestamp : {0}, epoch : {0},
                     custodian : {ZeroKey}]],
   stake : [delegation : [voterPubkey : Pubkeys,
                          stake : {0, 10},
                          activationEpoch : {0},
                          deactivationEpoch : {0, 300},
                          unused : {0}],
            creditsObserved : {0, 70000}]]

\* The bytes of an account as the cluster holds them: the 196 bytes of the
\* fields, and the 4 bytes that complete a stake account's 200.
StakeAccountData(v) == stakeAccountCodecEncode(v) \o <<0, 0, 0, 0>>

\* The 200 bytes of the stake account of decode.test.ts.
TestStakeAccountData ==
  <<1, 0, 0, 0, 128, 213, 34, 0, 0, 0, 0, 0>> \o TestAuthority
    \o TestAuthority \o [i \in 1..124 |-> 0]

\* The buffers given to stakeAccountCodec.decode: the bytes of the fields
\* alone, the whole data of an account, and data cut short; the account of
\* decode.test.ts is one of them.
StakeAccountBuffers ==
  UNION {{stakeAccountCodecEncode(v),
          StakeAccountData(v),
          BytesAt(StakeAccountData(v), 0, stakeAccountCodecSize - 1)} :
            v \in CodecStakeAccounts}
    \cup {TestStakeAccountData}

\* The entries of the history buffers that are decoded.
CodecEntries ==
  [epoch : {2, 300}, effective : {3}, activating : {4},
   deactivating : {5, 70000}]

RECURSIVE SeqsUpTo(_, _)
SeqsUpTo(S, n) ==
  IF n = 0 THEN {<<>>}
  ELSE LET shorter == SeqsUpTo(S, n - 1)
       IN  shorter \cup {Append(s, x) : s \in shorter, x \in S}

\* The buffers given to stakeHistoryCodec.decode: a declared size, the
\* bytes of some entries (as many as declared, more or fewer) and, as in
\* the sysvar account, whose data has a fixed length, zero bytes after them.
StakeHistoryBuffers ==
  {LittleEndian(size, U64Size) \o EncodeItems(items) \o tail :
     size \in 0..MaxEntries,
     items \in SeqsUpTo(CodecEntries, MaxEntries),
     tail \in {<<>>, <<0, 0, 0, 0>>}}

InitCodec ==
  /\ EngineUnused
  /\ RpcUnused
  /\ SendUnused
  /\ AirdropUnused
  /\ \/ codec = "stakeAccountCodec" /\ buffer \in StakeAccountBuffers
     \/ codec = "stakeHistoryCodec" /\ buffer \in StakeHistoryBuffers
  /\ decoded = NoResult
  /\ encoded = NoResult
  /\ codecPc = "input"

\* stakeAccountCodec.decode(buffer)
DecodeStakeAccount ==
  /\ codecPc = "input"
  /\ codec = "stakeAccountCodec"
  /\ decoded' = stakeAccountCodecDecode(buffer)
  /\ codecPc' = IF decoded' = Threw THEN "threw" ELSE "decoded"
  /\ UNCHANGED <<codec, buffer, encoded>>
  /\ UNCHANGED outsideCodec

\* stakeHistoryCodec.decode(buffer)
DecodeStakeHistory ==
  /\ codecPc = "input"
  /\ codec = "stakeHistoryCodec"
  /\ decoded' = stakeHistoryCodecDecode(buffer)
  /\ codecPc' = IF decoded' = Threw THEN "threw" ELSE "decoded"
  /\ UNCHANGED <<codec, buffer, encoded>>
  /\ UNCHANGED outsideCodec

\* stakeAccountCodec.encode of the decoded value
EncodeStakeAccount ==
  /\ codecPc = "decoded"
  /\ codec = "stakeAccountCodec"
  /\ encoded' = stakeAccountCodecEncode(decoded.value)
  /\ codecPc' = "encoded"
  /\ UNCHANGED <<codec, buffer, decoded>>
  /\ UNCHANGED outsideCodec

\* stakeHistoryCodec.encode of the decoded value
EncodeStakeHistory ==
  /\ codecPc = "decoded"
  /\ codec = "stakeHistoryCodec"
  /\ encoded' = stakeHistoryCodecEncode(decoded.value)
  /\ codecPc' = "encoded"
  /\ UNCHANGED <<codec, buffer, decoded>>
  /\ UNCHANGED outsideCodec

NextCodec ==
  \/ DecodeStakeAccount
  \/ DecodeStakeHistory
  \/ EncodeStakeAccount
  \/ EncodeStakeHistory

SpecCodec == InitCodec /\ [][NextCodec]_vars

(***************************************************************************)
(* sendTransactionWithRetry and sendVersionedTransactionWithRetry          *)
(* (src/src/lib/transaction.ts): one action per await of a call, with the  *)
(* synchronous code that follows it up to the next await.                  *)
(***************************************************************************)

\* options.maxRetries is drawn from 0..MaxRetries.
MaxRetries == 3

RETRY_INTERVAL_INCREASE == 200

\* const timeBetweenPolls
timeBetweenPolls == 500

\* The least delayBetweenRetries: Math.max(initialDelayMs, 500).
MinimumDelayMs == 500

\* options.initialDelayMs
InitialDelays == {0, 1000}

\* What connection.getSignatureStatus answers: response.value is null, or
\* has the confirmationStatus given.
SignatureStatuses == {"null", "processed", "confirmed", "finalized"}

Null == [status |-> "null"]

TheSignature == [status |-> "signature"]

\* throw new Error(`Transaction failed after ${maxRetries} attempts`)
TransactionFailed == [status |-> "threw", error |-> "Transaction failed"]

\* throw new Error("No signers or fee payer provided")
NoFeePayer == [status |-> "threw", error |-> "No signers or fee payer"]

\* What getLatestBlockhash threw, which the function does not catch.
BlockhashFailed == [status |-> "threw", error |-> "getLatestBlockhash"]

InitSend ==
  /\ EngineUnused
  /\ RpcUnused
  /\ CodecUnused
  /\ AirdropUnused
  /\ sendFunction = "none"
  /\ signers \in {0, 1}
  /\ feePayer \in BOOLEAN
  /\ recentBlockhash \in BOOLEAN
  /\ maxRetries \in 0..MaxRetries
  /\ initialDelayMs \in InitialDelays
  /\ sendPc = "idle"
  /\ signature = Null
  /\ retries = 0
  /\ delayBetweenRetries = 0
  /\ pollTimeout = 0
  /\ signatureStatus = "null"
  /\ sendRawTransactionCalls = 0
  /\ statusUpdates = <<>>
  /\ sendResult = NoResult

LoopHeadOneMore(r, d, ups) ==
  /\ retries' = r
  /\ delayBetweenRetries' = d
  /\ statusUpdates' = ups
  /\ IF r <= maxRetries
     THEN /\ sendRawTransactionCalls' = sendRawTransactionCalls + 1
          /\ sendPc' = "sending"
          /\ UNCHANGED sendResult
     ELSE /\ sendPc' = "threw"
          /\ sendResult' = TransactionFailed
          /\ UNCHANGED sendRawTransactionCalls

\* The head of the while loop with r retries made, delay d and the status
\* updates ups given so far: the next attempt starts by calling
\* sendRawTransaction, or the loop is left and the function throws.
LoopHead(r, d, ups) ==
  /\ retries' = r
  /\ delayBetweenRetries' = d
  /\ statusUpdates' = ups
  /\ IF r < maxRetries
     THEN /\ sendRawTransactionCalls' = sendRawTransactionCalls + 1
          /\ sendPc' = "sending"
          /\ UNCHANGED sendResult
     ELSE /\ sendPc' = "threw"
          /\ sendResult' = TransactionFailed
          /\ UNCHANGED sendRawTransactionCalls

\* The code from the "signed" update to the first sendRawTransaction.
EntersLoop(ups) ==
  LoopHead(0, Max(initialDelayMs, MinimumDelayMs), Append(ups, "signed"))

AttemptEndsAlwaysRetries ==
  LoopHead(retries + 1, delayBetweenRetries + RETRY_INTERVAL_INCREASE,
           Append(statusUpdates, "retry"))

\* The end of an attempt, by the end of its polls or by its catch block,
\* and the head of the loop that follows.
AttemptEnds ==
  IF retries + 1 < maxRetries
  THEN LoopHead(retries + 1, delayBetweenRetries + RETRY_INTERVAL_INCREASE,
                Append(statusUpdates, "retry"))
  ELSE LoopHead(retries + 1, delayBetweenRetries, statusUpdates)

\* The code of sendTransactionWithRetry from the fee payer to the loop.
SetsFeePayer(ups) ==
  IF ~feePayer /\ signers = 0
  THEN /\ sendPc' = "threw"
       /\ sendResult' = NoFeePayer
       /\ statusUpdates' = ups
       /\ UNCHANGED <<feePayer, retries, delayBetweenRetries,
                      sendRawTransactionCalls>>
  ELSE /\ feePayer' = TRUE
       /\ EntersLoop(ups)

\* sendTransactionWithRetry is called and runs to its first await.
SendTransactionWithRetry ==
  /\ sendPc = "idle"
  /\ sendFunction' = "sendTransactionWithRetry"
  /\ UNCHANGED <<signers, maxRetries, initialDelayMs, signature, pollTimeout,
                 signatureStatus>>
  /\ UNCHANGED outsideSend
  /\ IF ~recentBlockhash
     THEN /\ sendPc' = "blockhash"
          /\ statusUpdates' = <<"created">>
          /\ UNCHANGED <<feePayer, recentBlockhash, retries,
                         delayBetweenRetries, sendRawTransactionCalls,
                         sendResult>>
     ELSE /\ SetsFeePayer(<<"created">>)
          /\ UNCHANGED recentBlockhash

\* connection.getLatestBlockhash returns.
BlockhashReturns ==
  /\ sendPc = "blockhash"
  /\ recentBlockhash' = TRUE
  /\ SetsFeePayer(statusUpdates)
  /\ UNCHANGED <<sendFunction, signers, maxRetries, initialDelayMs, signature,
                 pollTimeout, signatureStatus>>
  /\ UNCHANGED outsideSend

\* connection.getLatestBlockhash throws, outside the try block.
BlockhashThrows ==
  /\ sendPc = "blockhash"
  /\ sendPc' = "threw"
  /\ sendResult' = BlockhashFailed
  /\ UNCHANGED <<sendFunction, signers, feePayer, recentBlockhash, maxRetries,
                 initialDelayMs, signature, retries, delayBetweenRetries,
                 pollTimeout, signatureStatus, sendRawTransactionCalls,
                 statusUpdates>>
  /\ UNCHANGED outsideSend

\* sendVersionedTransactionWithRetry is called and runs to its first await.
SendVersionedTransactionWithRetry ==
  /\ sendPc = "idle"
  /\ sendFunction' = "sendVersionedTransactionWithRetry"
  /\ EntersLoop(<<"created">>)
  /\ UNCHANGED <<signers, feePayer, recentBlockhash, maxRetries,
                 initialDelayMs, signature, pollTimeout, signatureStatus>>
  /\ UNCHANGED outsideSend

\* connection.sendRawTransaction returns the signature.
SendRawTransactionReturns ==
  /\ sendPc = "sending"
  /\ signature' = TheSignature
  /\ statusUpdates' = IF signature = Null
                      THEN Append(statusUpdates, "sent")
                      ELSE statusUpdates
  /\ pollTimeout' = delayBetweenRetries
  /\ IF delayBetweenRetries > 0
     THEN /\ sendPc' = "polling"
          /\ UNCHANGED <<retries, delayBetweenRetries,
                         sendRawTransactionCalls, sendResult>>
     ELSE FALSE
  /\ UNCHANGED <<sendFunction, signers, feePayer, recentBlockhash, maxRetries,
                 initialDelayMs, signatureStatus>>
  /\ UNCHANGED outsideSend

\* connection.sendRawTransaction throws: the catch block ends the attempt.
SendRawTransactionThrows ==
  /\ sendPc = "sending"
  /\ AttemptEnds
  /\ UNCHANGED <<sendFunction, signers, feePayer, recentBlockhash, maxRetries,
                 initialDelayMs, signature, pollTimeout, signatureStatus>>
  /\ UNCHANGED outsideSend

\* The timer of a poll fires and connection.getSignatureStatus answers
\* with response.
Poll(response) ==
  /\ sendPc = "polling"
  /\ UNCHANGED <<sendFunction, signers, feePayer, recentBlockhash, maxRetries,
                 initialDelayMs, signature>>
  /\ UNCHANGED outsideSend
  /\ signatureStatus' = IF response # "null" THEN response
                        ELSE signatureStatus
  /\ IF response \in {"confirmed", "finalized"}
     THEN /\ statusUpdates' = Append(statusUpdates, "confirmed")
          /\ sendPc' = "returned"
          /\ sendResult' = signature
          /\ UNCHANGED <<retries, delayBetweenRetries, pollTimeout,
                         sendRawTransactionCalls>>
     ELSE /\ pollTimeout' = pollTimeout - timeBetweenPolls
          /\ IF pollTimeout - timeBetweenPolls > 0
             THEN UNCHANGED <<sendPc, retries, delayBetweenRetries,
                              sendRawTransactionCalls, statusUpdates,
                              sendResult>>
             ELSE AttemptEnds

\* connection.getSignatureStatus throws: the catch block ends the attempt.
PollThrows ==
  /\ sendPc = "polling"
  /\ AttemptEnds
  /\ UNCHANGED <<sendFunction, signers, feePayer, recentBlockhash, maxRetries,
                 initialDelayMs, signature, pollTimeout, signatureStatus>>
  /\ UNCHANGED outsideSend

NextSend ==
  \/ SendTransactionWithRetry
  \/ BlockhashReturns
  \/ BlockhashThrows
  \/ SendVersionedTransactionWithRetry
  \/ SendRawTransactionReturns
  \/ SendRawTransactionThrows
  \/ \E response \in SignatureStatuses : Poll(response)
  \/ PollThrows

SpecSend == InitSend /\ [][NextSend]_vars

\* Every await settles: the cluster answers or the request throws, and the
\* timers fire.
FairSpecSend == SpecSend /\ WF_vars(NextSend)

(***************************************************************************)
(* airdropIfRequired and requestAndConfirmAirdrop (src/src/lib/airdrop.ts): *)
(* calls made one after the other for one account, one action per await,   *)
(* while the cluster finalizes and other parties move lamports.            *)
(***************************************************************************)

\* The balance of the account stays within 0..MaxBalance.
MaxBalance == 3

\* The airdropAmount argument
AirdropAmounts == {1, 2}

\* The minimumBalance argument
MinimumBalances == 0..MaxBalance

\* const balance before getBalance has returned.
Unread == -1

\* Positions at which the call awaits a request to the cluster.
AirdropAwaits ==
  {"getBalance", "requestAirdrop", "getLatestBlockhash",
   "confirmTransaction", "getFinalizedBalance"}

\* The lamports the airdrop of the running call may still add.
InFlight ==
  IF airdropPc \in {"getBalance", "requestAirdrop"} THEN airdropAmount ELSE 0

InitAirdrop ==
  /\ EngineUnused
  /\ RpcUnused
  /\ CodecUnused
  /\ SendUnused
  /\ balance \in 0..MaxBalance
  /\ finalizedBalance = balance
  /\ airdropTx = "none"
  /\ airdropPc = "idle"
  /\ airdropAmount = 0
  /\ minimumBalance = 0
  /\ balanceRead = Unread
  /\ airdropRequests = 0
  /\ airdropResult = NoResult

RequiredAtOrBelow(read, minimum) == read <= minimum

\* if (balance < minimumBalance)
Required(read, minimum) == read < minimum

\* airdropIfRequired is called and awaits getBalance at "confirmed".
AirdropIfRequired(amount, minimum) ==
  /\ airdropPc \in {"idle", "returned", "threw"}
  /\ balance + amount <= MaxBalance
  /\ airdropPc' = "getBalance"
  /\ airdropAmount' = amount
  /\ minimumBalance' = minimum
  /\ airdropRequests' = 0
  /\ airdropResult' = NoResult
  /\ airdropTx' = "none"
  /\ balanceRead' = Unread
  /\ UNCHANGED <<balance, finalizedBalance>>
  /\ UNCHANGED outsideAirdrop

\* getBalance returns: the balance is returned, or requestAndConfirmAirdrop
\* is entered and requestAirdrop is called.
GetBalanceReturns ==
  /\ airdropPc = "getBalance"
  /\ balanceRead' = balance
  /\ IF Required(balance, minimumBalance)
     THEN /\ airdropRequests' = airdropRequests + 1
          /\ airdropPc' = "requestAirdrop"
          /\ UNCHANGED airdropResult
     ELSE /\ airdropPc' = "returned"
          /\ airdropResult' = [status |-> "returned", balance |-> balance]
          /\ UNCHANGED airdropRequests
  /\ UNCHANGED <<balance, finalizedBalance, airdropTx, airdropAmount,
                 minimumBalance>>
  /\ UNCHANGED outsideAirdrop

\* requestAirdrop returns the signature of a transaction that the cluster
\* processes, adding the lamports, or that fails; getLatestBlockhash is
\* called.
RequestAirdropReturns(fate) ==
  /\ airdropPc = "requestAirdrop"
  /\ airdropTx' = fate
  /\ balance' = IF fate = "processed" THEN balance + airdropAmount
                ELSE balance
  /\ airdropPc' = "getLatestBlockhash"
  /\ UNCHANGED <<finalizedBalance, airdropAmount, minimumBalance, balanceRead,
                 airdropRequests, airdropResult>>
  /\ UNCHANGED outsideAirdrop

\* getLatestBlockhash returns and confirmTransaction is called.
LatestBlockhashReturns ==
  /\ airdropPc = "getLatestBlockhash"
  /\ airdropPc' = "confirmTransaction"
  /\ UNCHANGED <<balance, finalizedBalance, airdropTx, airdropAmount,
                 minimumBalance, balanceRead, airdropRequests, airdropResult>>
  /\ UNCHANGED outsideAirdrop

\* confirmTransaction at "finalized" returns, its value not looked at, and
\* getBalance at "finalized" is called.
ConfirmTransactionReturns ==
  /\ airdropPc = "confirmTransaction"
  /\ airdropTx \in {"finalized", "failed"}
  /\ airdropPc' = "getFinalizedBalance"
  /\ UNCHANGED <<balance, finalizedBalance, airdropTx, airdropAmount,
                 minimumBalance, balanceRead, airdropRequests, airdropResult>>
  /\ UNCHANGED outsideAirdrop

\* getBalance at "finalized" returns and so does the call.
FinalizedBalanceReturns ==
  /\ airdropPc = "getFinalizedBalance"
  /\ airdropPc' = "returned"
  /\ airdropResult' = [status |-> "returned", balance |-> finalizedBalance]
  /\ UNCHANGED <<balance, finalizedBalance, airdropTx, airdropAmount,
                 minimumBalance, balanceRead, airdropRequests>>
  /\ UNCHANGED outsideAirdrop

\* The request awaited throws, and so does the call.
AirdropRequestThrows ==
  /\ airdropPc \in AirdropAwaits
  /\ airdropPc' = "threw"
  /\ airdropResult' = Threw
  /\ UNCHANGED <<balance, finalizedBalance, airdropTx, airdropAmount,
                 minimumBalance, balanceRead, airdropRequests>>
  /\ UNCHANGED outsideAirdrop

\* The cluster finalizes what it has processed.
Finalize ==
  /\ finalizedBalance # balance \/ airdropTx = "processed"
  /\ finalizedBalance' = balance
  /\ airdropTx' = IF airdropTx = "processed" THEN "finalized" ELSE airdropTx
  /\ UNCHANGED <<balance, airdropPc, airdropAmount, minimumBalance,
                 balanceRead, airdropRequests, airdropResult>>
  /\ UNCHANGED outsideAirdrop

\* Another party moves lamports into or out of the account.
Transfer(lamports) ==
  /\ balance + lamports >= 0
  /\ balance + lamports + InFlight <= MaxBalance
  /\ balance' = balance + lamports
  /\ UNCHANGED <<finalizedBalance, airdropTx, airdropPc, airdropAmount,
                 minimumBalance, balanceRead, airdropRequests, airdropResult>>
  /\ UNCHANGED outsideAirdrop

NextAirdrop ==
  \/ \E amount \in AirdropAmounts, minimum \in MinimumBalances :
       AirdropIfRequired(amount, minimum)
  \/ GetBalanceReturns
  \/ \E fate \in {"processed", "failed"} : RequestAirdropReturns(fate)
  \/ LatestBlockhashReturns
  \/ ConfirmTransactionReturns
  \/ FinalizedBalanceReturns
  \/ AirdropRequestThrows
  \/ Finalize
  \/ \E lamports \in {-1, 1} : Transfer(lamports)

SpecAirdrop == InitAirdrop /\ [][NextAirdrop]_vars

(***************************************************************************)
(* Properties of the result of getStakeActivatingAndDeactivating           *)
(***************************************************************************)

Returned == pc = "returned"

Stake == delegation.stake

ActivationEpoch == delegation.activationEpoch

DeactivationEpoch == delegation.deactivationEpoch

\* C1: a result never has activating > 0 and deactivating > 0 at the same
\* time.
C1_NeverActivatingAndDeactivating ==
  \A t \in Epochs :
    returned[t].status = "ok" =>
      ~(returned[t].activating > 0 /\ returned[t].deactivating > 0)

\* A call at the deactivation epoch returned while part of the stake was
\* still activating after the warmup.
C1_Witness ==
  /\ Returned
  /\ targetEpoch = DeactivationEpoch
  /\ activating > 0
  /\ result.deactivating > 0

\* C2 as stated: whenever a result has deactivating = 0, effective +
\* activating equals the stake.
C2_Original ==
  Returned /\ result.deactivating = 0 =>
    result.effective + result.activating = Stake

\* C2 as amended: whenever a result has deactivating = 0, either
\* activationEpoch <= targetEpoch < deactivationEpoch and effective +
\* activating equals the stake, or the result is (0, 0, 0).
C2_SumIsStakeWhileActive ==
  Returned /\ result.deactivating = 0 =>
    IF ActivationEpoch <= targetEpoch /\ targetEpoch < DeactivationEpoch
    THEN result.effective + result.activating = Stake
    ELSE result = Triple(0, 0, 0)

\* A call between activation and deactivation returned a stake that is partly
\* effective and partly activating.
C2_Witness ==
  /\ Returned
  /\ ActivationEpoch < targetEpoch
  /\ targetEpoch < DeactivationEpoch
  /\ result.deactivating = 0
  /\ result.effective > 0
  /\ result.activating > 0

\* C3: a delegation with activationEpoch = deactivationEpoch gets (0, 0, 0)
\* at every target epoch, whatever the history holds.
C3_InstantlyDeactivatedIsZero ==
  ActivationEpoch = DeactivationEpoch =>
    /\ pc # "threw"
    /\ \A t \in Epochs :
         returned[t] # NoResult => returned[t] = Triple(0, 0, 0)

\* Such a delegation with a stake, polled after its epoch through a cooldown
\* step over a history entry of that epoch.
C3_Witness ==
  /\ Returned
  /\ ActivationEpoch = DeactivationEpoch
  /\ Stake > 0
  /\ targetEpoch > DeactivationEpoch
  /\ cooldownIters > 0
  /\ returned[ActivationEpoch] # NoResult
  /\ ActivationEpoch > 0

\* C4: for one delegation and one history, the effective amount returned is
\* non-decreasing in the target epoch over the target epochs before the
\* deactivation epoch.
C4_EffectiveNonDecreasing ==
  \A t1, t2 \in Epochs :
    /\ t1 <= t2
    /\ t2 < DeactivationEpoch
    /\ returned[t1].status = "ok"
    /\ returned[t2].status = "ok"
    => returned[t1].effective <= returned[t2].effective

\* Three polls after the activation epoch and before the deactivation epoch
\* returned three different effective amounts.
C4_Witness ==
  \E t \in Epochs :
    /\ t + 2 \in Epochs
    /\ t + 2 < DeactivationEpoch
    /\ t > ActivationEpoch
    /\ returned[t].status = "ok"
    /\ returned[t + 1].status = "ok"
    /\ returned[t + 2].status = "ok"
    /\ 0 < returned[t].effective
    /\ returned[t].effective < returned[t + 1].effective
    /\ returned[t + 1].effective < returned[t + 2].effective

InCall == pc \in {"warmup", "deactivate", "cooldown"}

\* C5: every call terminates: a walk is at epoch start + iterations, is in
\* its loop only below the target epoch, so it runs at most targetEpoch -
\* start iterations, and a call that has not returned or thrown can always
\* take its next step.
C5_WalksAreBounded ==
  /\ warmupIters <= Max(0, targetEpoch - ActivationEpoch)
  /\ cooldownIters <= Max(0, targetEpoch - DeactivationEpoch)
  /\ pc = "warmup" =>
       /\ currentEpoch = ActivationEpoch + warmupIters
       /\ currentEpoch < targetEpoch
  /\ pc = "cooldown" =>
       /\ currentEpoch = DeactivationEpoch + cooldownIters
       /\ currentEpoch < targetEpoch
  /\ InCall => ENABLED Next

\* A call returned after a warmup walk of two iterations and a cooldown walk
\* of one.
C5_Witness ==
  /\ Returned
  /\ warmupIters = 2
  /\ cooldownIters = 1
  /\ result.effective > 0

\* C6: at targetEpoch = activationEpoch < deactivationEpoch the result is
\* (0, stake, 0), whatever the history holds.
C6_AllActivatingAtActivation ==
  Returned /\ targetEpoch = ActivationEpoch
           /\ ActivationEpoch < DeactivationEpoch =>
    result = Triple(0, Stake, 0)

\* Such a call returned for a history whose entry at the activation epoch
\* would make the warmup walk throw.
C6_Witness ==
  /\ Returned
  /\ targetEpoch = ActivationEpoch
  /\ ActivationEpoch < DeactivationEpoch
  /\ Stake > 0
  /\ getStakeHistoryEntry(ActivationEpoch, stakeHistory) # NoEntry
  /\ getStakeHistoryEntry(ActivationEpoch, stakeHistory).activating = 0

\* The history entries the two walks start from.
ActivationEntry == getStakeHistoryEntry(ActivationEpoch, stakeHistory)

DeactivationEntry == getStakeHistoryEntry(DeactivationEpoch, stakeHistory)

\* C7 as stated: one warmup step (activationEpoch = targetEpoch - 1, read
\* with targetEpoch < deactivationEpoch, entry with activatingTotal > 0)
\* gives effective =
\* min(stake, max(1, round(stake * effectiveTotal * 9 / (activatingTotal *
\* 100)))) with the exact quotient rounded, activating = stake - effective,
\* deactivating = 0, and effective = stake * 9 / 100 when effectiveTotal =
\* activatingTotal = stake.
C7_Original ==
  /\ Returned
  /\ ActivationEpoch = targetEpoch - 1
  /\ targetEpoch < DeactivationEpoch
  /\ ActivationEntry # NoEntry
  /\ ActivationEntry.activating > 0
  => LET en == ActivationEntry
         e == Min(Stake, Max(1, RoundHalfUp(Stake * en.effective * 9,
                                            en.activating * 100)))
     IN  /\ result = Triple(e, Stake - e, 0)
         /\ en.effective = Stake /\ en.activating = Stake =>
              result.effective = (Stake * 9) \div 100

\* C7 as amended: one warmup step before the deactivation epoch
\* (activationEpoch = targetEpoch - 1, targetEpoch < deactivationEpoch, entry
\* with activatingTotal > 0) gives effective = min(stake, max(1, r)) with r
\* the double-precision product (stake / activatingTotal) * (effectiveTotal *
\* 0.09) rounded by Math.round, activating = stake - effective, deactivating
\* = 0, and effective = stake * 9 / 100 when effectiveTotal = activatingTotal
\* = stake and stake * 9 is a multiple of 100.
C7_OneWarmupStep ==
  /\ Returned
  /\ ActivationEpoch = targetEpoch - 1
  /\ targetEpoch < DeactivationEpoch
  /\ ActivationEntry # NoEntry
  /\ ActivationEntry.activating > 0
  => LET en == ActivationEntry
         e == Min(Stake, Max(1, RoundedShare(Stake, en.effective,
                                             en.activating)))
     IN  /\ result = Triple(e, Stake - e, 0)
         /\ /\ en.effective = Stake
            /\ en.activating = Stake
            /\ (Stake * 9) % 100 = 0
            => result.effective = (Stake * 9) \div 100

\* One warmup step of a stake equal to both cluster totals, 9% of it a whole
\* number: neither the floor of 1 nor the clamp applies.
C7_Witness ==
  /\ Returned
  /\ ActivationEpoch = targetEpoch - 1
  /\ targetEpoch < DeactivationEpoch
  /\ ActivationEntry # NoEntry
  /\ ActivationEntry.activating = Stake
  /\ ActivationEntry.effective = Stake
  /\ Stake > 0
  /\ (Stake * 9) % 100 = 0
  /\ result.effective > 1
  /\ result.activating > 0

\* Every returned amount lies between 0 and the stake.
C8_WithinStake ==
  \A t \in Epochs :
    returned[t].status = "ok" =>
      /\ 0 <= returned[t].effective
      /\ returned[t].effective <= Stake
      /\ 0 <= returned[t].activating
      /\ returned[t].activating <= Stake

\* A warmup iteration whose delta reaches the remaining amount ends the walk
\* with all of the stake effective.
C8_ClampEndsWalk ==
  /\ pc = "warmup"
  /\ entry.activating > 0
  /\ MinimumStep(RoundedShare(Stake - currentEffectiveStake, entry.effective,
                              entry.activating))
       >= Stake - currentEffectiveStake
  => /\ pc' = "deactivate"
     /\ effective' = Stake
     /\ activating' = 0

FirstStepReachesStake ==
  /\ Returned
  /\ targetEpoch = ActivationEpoch + 1
  /\ warmupIters = 1
  /\ MinimumStep(RoundedShare(Stake, ActivationEntry.effective,
                              ActivationEntry.activating)) >= Stake

\* C8 as stated: amounts within the stake, and a delegation whose first-step
\* delta is >= stake is (stake, 0, 0) one epoch after activation.
C8_Original ==
  /\ C8_WithinStake
  /\ FirstStepReachesStake => result = Triple(Stake, 0, 0)

\* C8 as amended: amounts within the stake; a warmup step whose delta reaches
\* the remaining amount makes effective exactly the stake and ends the walk;
\* a delegation whose first-step delta is >= stake is (stake, 0, 0) one epoch
\* after activation provided that epoch is before the deactivation epoch.
C8_OvershootIsClamped ==
  /\ [](/\ C8_WithinStake
        /\ FirstStepReachesStake /\ targetEpoch < DeactivationEpoch =>
             result = Triple(Stake, 0, 0))
  /\ [][C8_ClampEndsWalk]_vars

\* A stake clamped in its first step by a delta larger than the stake.
C8_Witness ==
  /\ FirstStepReachesStake
  /\ targetEpoch < DeactivationEpoch
  /\ Stake > 1
  /\ RoundedShare(Stake, ActivationEntry.effective,
                  ActivationEntry.activating) > Stake
  /\ result = Triple(Stake, 0, 0)

\* C9: at targetEpoch = deactivationEpoch > activationEpoch the result has
\* the warmup's effective amount as effective and as deactivating, and
\* activating 0.
C9_AtDeactivationEpoch ==
  Returned /\ targetEpoch = DeactivationEpoch
           /\ ActivationEpoch < DeactivationEpoch =>
    /\ result.deactivating = effective
    /\ result.effective = effective
    /\ result.activating = 0

\* A call at the deactivation epoch of a stake the warmup left partly
\* activating.
C9_Witness ==
  /\ Returned
  /\ targetEpoch = DeactivationEpoch
  /\ ActivationEpoch < DeactivationEpoch
  /\ effective > 0
  /\ activating > 0
  /\ result = Triple(effective, 0, effective)

\* C10 as stated: one cooldown step (deactivationEpoch = targetEpoch - 1,
\* entry with deactivatingTotal > 0) from a warmup result E gives effective =
\* deactivating = max(0, E - max(1, round(E * effectiveTotal * 9 /
\* (deactivatingTotal * 100)))) with the exact quotient rounded, activating =
\* 0, and stake - stake * 9 / 100 when E = effectiveTotal = deactivatingTotal
\* = stake.
C10_Original ==
  /\ Returned
  /\ DeactivationEpoch = targetEpoch - 1
  /\ DeactivationEntry # NoEntry
  /\ DeactivationEntry.deactivating > 0
  => LET en == DeactivationEntry
         left == Max(0, effective
                          - Max(1, RoundHalfUp(effective * en.effective * 9,
                                               en.deactivating * 100)))
     IN  /\ result = Triple(left, 0, left)
         /\ /\ effective = Stake
            /\ en.effective = Stake
            /\ en.deactivating = Stake
            => result.effective = Stake - (Stake * 9) \div 100

\* C10 as amended: the same with r the double-precision product
\* (E / deactivatingTotal) * (effectiveTotal * 0.09) rounded by Math.round in
\* place of the exactly rounded quotient, and stake - stake * 9 / 100 when E
\* = effectiveTotal = deactivatingTotal = stake and stake * 9 is a multiple of
\* 100.
C10_OneCooldownStep ==
  /\ Returned
  /\ DeactivationEpoch = targetEpoch - 1
  /\ DeactivationEntry # NoEntry
  /\ DeactivationEntry.deactivating > 0
  => LET en == DeactivationEntry
         left == Max(0, effective
                          - Max(1, RoundedShare(effective, en.effective,
                                                en.deactivating)))
     IN  /\ result = Triple(left, 0, left)
         /\ /\ effective = Stake
            /\ en.effective = Stake
            /\ en.deactivating = Stake
            /\ (Stake * 9) % 100 = 0
            => result.effective = Stake - (Stake * 9) \div 100

\* One cooldown step of a fully effective stake equal to both cluster totals,
\* 9% of it a whole number.
C10_Witness ==
  /\ Returned
  /\ DeactivationEpoch = targetEpoch - 1
  /\ DeactivationEntry # NoEntry
  /\ DeactivationEntry.deactivating = Stake
  /\ DeactivationEntry.effective = Stake
  /\ effective = Stake
  /\ Stake > 0
  /\ (Stake * 9) % 100 = 0
  /\ result.effective > 0
  /\ result.effective < Stake

(***************************************************************************)
(* Properties of getStakeActivation                                        *)
(***************************************************************************)

\* The call resolved with a StakeActivation.
Resolved == rpcPc = "resolved"

\* What the engine returns for the answers of the cluster.
EngineResult ==
  getStakeActivatingAndDeactivating(stakeAccount.delegation, epochInfo.epoch,
                                    stakeHistoryAccount.data)

\* std: every answer of the cluster is usable.
AllAnswered ==
  /\ epochInfo.outcome = "ok"
  /\ stakeAccount.outcome = "ok"
  /\ stakeHistoryAccount.outcome = "ok"

\* C11: for an account passed to the engine, the status of the resolved
\* call is "deactivating" if the engine's deactivating > 0, else
\* "activating" if activating > 0, else "active" if effective > 0, else
\* "inactive": one of the four in every case.
C11_StatusByPriority ==
  Resolved /\ stakeAccount.discriminant # 1 =>
    LET r == EngineResult
        status == stakeActivation.status
    IN  /\ status \in {"deactivating", "activating", "active", "inactive"}
        /\ r.deactivating > 0 => status = "deactivating"
        /\ ~(r.deactivating > 0) /\ r.activating > 0 => status = "activating"
        /\ ~(r.deactivating > 0) /\ ~(r.activating > 0) /\ r.effective > 0
             => status = "active"
        /\ ~(r.deactivating > 0) /\ ~(r.activating > 0) /\ ~(r.effective > 0)
             => status = "inactive"

\* A call resolved "activating" for an engine result with both effective
\* and activating stake: the order of the tests decided.
C11_Witness ==
  /\ Resolved
  /\ stakeAccount.discriminant = 2
  /\ EngineResult.effective > 0
  /\ EngineResult.activating > 0
  /\ stakeActivation.status = "activating"

\* C12: for a delegated account the resolved call has active = effective
\* and inactive = lamports - effective - rentExemptReserve, so that active +
\* inactive + rentExemptReserve = lamports.
C12_LamportsAreConserved ==
  Resolved /\ stakeAccount.discriminant # 1 =>
    /\ stakeActivation.active = EngineResult.effective
    /\ stakeActivation.inactive =
         stakeAccount.lamports - EngineResult.effective
           - stakeAccount.rentExemptReserve
    /\ stakeActivation.active + stakeActivation.inactive
         + stakeAccount.rentExemptReserve = stakeAccount.lamports

\* A delegated account resolved with both active and inactive lamports.
C12_Witness ==
  /\ Resolved
  /\ stakeAccount.discriminant = 2
  /\ stakeActivation.active > 0
  /\ stakeActivation.inactive > 0

\* C13: the resolved call never carries a negative lamport amount; an
\* account with fewer lamports than effective + rentExemptReserve (than
\* rentExemptReserve when it has no delegation) makes the call fail.
C13_NoNegativeAmount ==
  Resolved =>
    /\ stakeActivation.active >= 0
    /\ stakeActivation.inactive >= 0

\* C14: for an account of discriminant 1 the call resolves with status
\* "inactive", active 0 and inactive = lamports - rentExemptReserve,
\* whatever the epoch and the history are, and the engine is not called.
C14_NoDelegationIsInactive ==
  Resolved /\ stakeAccount.discriminant = 1 =>
    /\ stakeActivation =
         [status |-> "inactive", active |-> 0,
          inactive |-> stakeAccount.lamports - stakeAccount.rentExemptReserve]
    /\ engineArguments = NoResult

\* An account of discriminant 1 resolved at an epoch and with a history
\* the engine would throw on.
C14_Witness ==
  /\ Resolved
  /\ stakeAccount.discriminant = 1
  /\ EngineResult = Threw
  /\ stakeActivation.status = "inactive"

\* C15 as stated: the call fails and returns no status whenever the
\* discriminant says that no delegation exists (0 or 1).
C15_Original ==
  stakeAccount.discriminant \in {0, 1} =>
    /\ ~Resolved
    /\ stakeActivation = NoResult

\* C15 as amended: the call fails and returns no status whenever the
\* discriminant is 0, the promise of the stake account rejecting once the
\* cluster answered; with discriminant 1 the call can resolve, and then
\* with status "inactive".
C15_UninitializedRejects ==
  /\ stakeAccount.discriminant = 0 =>
       /\ ~Resolved
       /\ stakeActivation = NoResult
       /\ fetches["stakeAccount"] \in {"unsent", "pending", "rejected"}
  /\ Resolved /\ stakeAccount.discriminant = 1 =>
       stakeActivation.status = "inactive"

\* The call rejected for an uninitialized account when every fetch was
\* answered with usable data.
C15_Witness ==
  /\ rpcPc = "rejected"
  /\ stakeAccount.discriminant = 0
  /\ AllAnswered
  /\ fetches["stakeAccount"] = "rejected"

\* C16: an account whose discriminant is none of 0, 1 and 2 fails to
\* decode: the call does not resolve and the account is never passed to
\* the engine.
C16_UnknownDiscriminantRejected ==
  stakeAccount.discriminant \notin {0, 1, 2} =>
    /\ ~Resolved
    /\ engineArguments = NoResult

\* What the call resolves with, as a function of the answers of the
\* cluster alone.
ExpectedActivation ==
  IF stakeAccount.discriminant = 1
  THEN InactiveActivation(stakeAccount.lamports,
                          stakeAccount.rentExemptReserve)
  ELSE DelegatedActivation(stakeAccount.lamports,
                           stakeAccount.rentExemptReserve, EngineResult)

\* C19: the three fetches are sent together when the call starts, each
\* exactly once; whatever the order in which they settle, a resolved call
\* has the result the three answers determine; and a call one of whose
\* fetches or decodings failed never resolves and returns no status.
C19_FetchesAreConcurrent ==
  /\ \A f \in Fetches :
       /\ requests[f] = IF rpcPc = "idle" THEN 0 ELSE 1
       /\ fetches[f] = "unsent" <=> rpcPc = "idle"
  /\ Resolved =>
       /\ AllAnswered
       /\ \A f \in Fetches : fetches[f] = "fulfilled"
       /\ stakeActivation = ExpectedActivation
  /\ ~Resolved => stakeActivation = NoResult
  /\ PromiseAllSettled(fetches) /\ ~AllAnswered =>
       rpcPc # "awaiting" \/ ENABLED RpcRejects

\* A call resolved after its fetches settled in the reverse of the order
\* they were sent in.
C19_Witness ==
  /\ Resolved
  /\ settled = <<"stakeHistory", "stakeAccount", "epochInfo">>
  /\ stakeAccount.discriminant = 2

(***************************************************************************)
(* Properties of the codecs                                                *)
(***************************************************************************)

\* C17: whenever a buffer decodes, with stakeAccountCodec or
\* stakeHistoryCodec, encoding the decoded value gives the bytes of the
\* buffer again.
C17_RoundTrip == codecPc = "encoded" => encoded = buffer

\* C18: a decoded history has as many entries as the little-endian u64 in
\* the first 8 bytes of the buffer says, entry i (from 0) holds the four
\* little-endian u64 at bytes 8 + 32 * i onwards as epoch, effective,
\* activating and deactivating, and the rentExemptReserve of a decoded
\* stake account is the little-endian u64 that follows its first 4 bytes.
C18_Layout ==
  /\ codec = "stakeHistoryCodec" /\ codecPc \in {"decoded", "encoded"} =>
       LET entries == decoded.value
           n == Len(entries)
       IN  /\ SubSeq(buffer, 1, 8) = LittleEndian(n, 8)
           /\ \A i \in 0..(n - 1) :
                LET at == 8 + 32 * i
                    e == entries[i + 1]
                IN  /\ SubSeq(buffer, at + 1, at + 8)
                         = LittleEndian(e.epoch, 8)
                    /\ SubSeq(buffer, at + 9, at + 16)
                         = LittleEndian(e.effective, 8)
                    /\ SubSeq(buffer, at + 17, at + 24)
                         = LittleEndian(e.activating, 8)
                    /\ SubSeq(buffer, at + 25, at + 32)
                         = LittleEndian(e.deactivating, 8)
  /\ codec = "stakeAccountCodec" /\ codecPc \in {"decoded", "encoded"} =>
       SubSeq(buffer, 5, 12)
         = LittleEndian(decoded.value.meta.rentExemptReserve, 8)

\* A history of two entries with different epochs was decoded from a
\* buffer that carries more bytes than the two entries.
C18_Witness ==
  /\ codec = "stakeHistoryCodec"
  /\ codecPc = "decoded"
  /\ Len(decoded.value) = 2
  /\ decoded.value[1].epoch = 300
  /\ decoded.value[2].epoch = 2
  /\ decoded.value[2].deactivating = 70000
  /\ Len(buffer) > 72

(***************************************************************************)
(* Properties of the send functions                                        *)
(***************************************************************************)

\* C20: a call of sendTransactionWithRetry or of
\* sendVersionedTransactionWithRetry invokes connection.sendRawTransaction
\* at most once; the attempts after the one that sent only poll the status.
C20_SentOnce == sendRawTransactionCalls <= 1

\* The call has returned or thrown.
SendFinished == sendPc \in {"returned", "threw"}

\* An attempt of the retry loop is running.
InAttempt == sendPc \in {"sending", "polling"}

\* The state of C21: no more than maxRetries attempts are started, a
\* returned call returns the signature and the last status polled was
\* confirmed or finalized, and the failure after the loop is thrown with
\* retries and attempts both equal to maxRetries.
C21_AttemptsAreBounded ==
  /\ sendRawTransactionCalls <= maxRetries
  /\ retries <= maxRetries
  /\ sendPc = "returned" =>
       /\ sendResult = TheSignature
       /\ signatureStatus \in {"confirmed", "finalized"}
  /\ sendResult = TransactionFailed =>
       /\ retries = maxRetries
       /\ sendRawTransactionCalls = maxRetries
       /\ signatureStatus \notin {"confirmed", "finalized"}

\* The steps of C21: the call returns only from a poll, and the only error
\* that leaves an attempt is the failure thrown after the loop.
C21_NothingEscapes ==
  /\ sendPc' = "returned" /\ sendPc # "returned" => sendPc = "polling"
  /\ InAttempt /\ sendPc' = "threw" => sendResult' = TransactionFailed

\* C21: the retry loop makes at most maxRetries attempts and the call
\* always finishes; it returns the signature only after a poll reported
\* confirmed or finalized, otherwise it throws "Transaction failed" after
\* exactly maxRetries attempts, and no error thrown inside an attempt
\* leaves the loop before that.
C21_RetryLoopFinishes ==
  /\ []C21_AttemptsAreBounded
  /\ [][C21_NothingEscapes]_vars
  /\ <>SendFinished

\* A call of maxRetries 2 threw the failure after two attempts.
C21_Witness ==
  /\ sendResult = TransactionFailed
  /\ maxRetries = 2
  /\ retries = 2
  /\ sendRawTransactionCalls = 2

\* How many of the status updates given so far are update.
Updates(update) ==
  Cardinality({i \in DOMAIN statusUpdates : statusUpdates[i] = update})

\* C22: the status updates of a call start with "created" and then
\* "signed", each given once; "sent" is given at most once and before
\* "confirmed"; "retry" is given fewer than maxRetries times (never when
\* maxRetries is 0); "confirmed" is given exactly when the call returns the
\* signature, once and as the last update; and a call that returns in its
\* first attempt has given exactly created, signed, sent, confirmed.
C22_StatusUpdatesAreOrdered ==
  LET n == Len(statusUpdates)
  IN  /\ sendPc # "idle" => n >= 1 /\ statusUpdates[1] = "created"
      /\ n >= 2 => statusUpdates[2] = "signed"
      /\ Updates("created") <= 1
      /\ Updates("signed") <= 1
      /\ Updates("sent") <= 1
      /\ Updates("retry") <= Max(maxRetries - 1, 0)
      /\ Updates("confirmed") = IF sendPc = "returned" THEN 1 ELSE 0
      /\ sendPc = "returned" =>
           /\ sendResult = TheSignature
           /\ statusUpdates[n] = "confirmed"
           /\ \E i \in 3..(n - 1) : statusUpdates[i] = "sent"
           /\ retries = 0 =>
                statusUpdates = <<"created", "signed", "sent", "confirmed">>

\* A call returned in its second attempt, after the send of the first
\* attempt threw: the "retry" update came before "sent".
C22_Witness ==
  /\ sendPc = "returned"
  /\ statusUpdates = <<"created", "signed", "retry", "sent", "confirmed">>

(***************************************************************************)
(* Properties of airdropIfRequired                                         *)
(***************************************************************************)

\* The state of C23: a call requests at most one airdrop, and it has
\* requested one exactly if the balance it read is below minimumBalance; a
\* call that returned without a request returned the balance it read.
C23_RequestedIffBelowMinimum ==
  /\ airdropRequests <= 1
  /\ balanceRead = Unread => airdropRequests = 0
  /\ balanceRead # Unread =>
       (airdropRequests = 1 <=> balanceRead < minimumBalance)
  /\ airdropPc = "returned" /\ airdropRequests = 0 =>
       /\ balanceRead >= minimumBalance
       /\ airdropResult.balance = balanceRead

\* The steps of C23: an airdrop is requested only in the step that reads a
\* balance below minimumBalance, and a call that requested one returns the
\* finalized balance, read after the airdrop was finalized (or failed).
C23_RequestFollowsRead ==
  /\ airdropRequests' > airdropRequests =>
       /\ balance < minimumBalance
       /\ balanceRead' = balance
  /\ airdropPc' = "returned" /\ airdropPc # "returned"
       /\ airdropRequests = 1 =>
       /\ airdropResult'.balance = finalizedBalance
       /\ airdropTx \in {"finalized", "failed"}

\* C23: airdropIfRequired requests an airdrop if and only if the balance it
\* read at its start is below minimumBalance; otherwise it requests none
\* and returns the balance it read, so that in a sequence of calls no
\* airdrop is requested on reading a balance at or above minimumBalance;
\* after an airdrop it returns the finalized balance.
C23_AirdropOnlyIfRequired ==
  /\ []C23_RequestedIffBelowMinimum
  /\ [][C23_RequestFollowsRead]_vars

\* A call read a balance below the minimum, requested an airdrop and
\* returned the finalized balance with the airdrop in it.
C23_Witness ==
  /\ airdropPc = "returned"
  /\ airdropRequests = 1
  /\ airdropTx = "finalized"
  /\ balanceRead < minimumBalance
  /\ airdropResult.balance = balanceRead + airdropAmount

(***************************************************************************)
(* Properties of the walks over an incomplete history                      *)
(***************************************************************************)

\* getStakeAndActivating has returned in the running call.
WarmedUp == pc \in {"deactivate", "cooldown", "returned"}

\* C24 as stated: when activationEpoch < targetEpoch and the history has no
\* entry for activationEpoch, getStakeAndActivating returns (stake, 0).
C24_Original ==
  WarmedUp /\ ActivationEpoch < targetEpoch /\ ActivationEntry = NoEntry =>
    effective = Stake /\ activating = 0

\* C24 as amended: when activationEpoch < targetEpoch, activationEpoch #
\* deactivationEpoch and the history has no entry for activationEpoch,
\* getStakeAndActivating returns (stake, 0), whatever entries of other
\* epochs the history has; with activationEpoch = deactivationEpoch it
\* returns (0, 0).
C24_MissingFirstEntryIsFullyEffective ==
  WarmedUp /\ ActivationEpoch < targetEpoch /\ ActivationEntry = NoEntry =>
    IF ActivationEpoch # DeactivationEpoch
    THEN effective = Stake /\ activating = 0
    ELSE effective = 0 /\ activating = 0

\* The warmup returned the whole stake as effective for a history that has
\* no entry for the activation epoch but one for the epoch after it.
C24_Witness ==
  /\ WarmedUp
  /\ ActivationEpoch + 1 < targetEpoch
  /\ ActivationEpoch # DeactivationEpoch
  /\ ActivationEntry = NoEntry
  /\ getStakeHistoryEntry(ActivationEpoch + 1, stakeHistory) # NoEntry
  /\ Stake > 0
  /\ effective = Stake

\* C25: when targetEpoch > deactivationEpoch and the history has no entry
\* for deactivationEpoch, the call returns (0, 0, 0), whatever the warmup
\* returned as effective.
C25_MissingFirstEntryIsCooledDown ==
  Returned /\ targetEpoch > DeactivationEpoch /\ DeactivationEntry = NoEntry
    => result = Triple(0, 0, 0)

\* Such a call returned (0, 0, 0) after a warmup that returned the whole
\* stake as effective.
C25_Witness ==
  /\ Returned
  /\ targetEpoch > DeactivationEpoch
  /\ DeactivationEntry = NoEntry
  /\ ActivationEpoch < DeactivationEpoch
  /\ Stake > 0
  /\ effective = Stake
  /\ result = Triple(0, 0, 0)

\* The cooldown walk of the running call ended at an entry whose
\* deactivating total is 0: the break of the first test of the loop body.
StoppedAtZeroDeactivating ==
  /\ Returned
  /\ targetEpoch > DeactivationEpoch
  /\ cooldownIters > 0
  /\ entry # NoEntry
  /\ entry.deactivating = 0

\* C26: when the cooldown walk of a call with targetEpoch > deactivationEpoch
\* consults an entry whose deactivating total is 0, the walk stops and the
\* result has effective = deactivating = 0.
C26_ZeroDeactivatingTotalLeavesNothing ==
  StoppedAtZeroDeactivating =>
    result.effective = 0 /\ result.deactivating = 0

\* The history has an entry whose epoch field is e.
HasEntry(e) == \E i \in DOMAIN stakeHistory : stakeHistory[i].epoch = e

\* A walk of the running call that starts at epoch start finds entries up to
\* epoch k - 1 and none for epoch k, before the target epoch.
GapAt(start, k) ==
  /\ start < k
  /\ k < targetEpoch
  /\ \A e \in start..(k - 1) : HasEntry(e)
  /\ ~HasEntry(k)

\* The running call has returned or thrown.
Finished == pc \in {"returned", "threw"}

ActivatedSince(k) == k <= ActivationEpoch /\ ActivationEpoch < targetEpoch

C27_WarmupWitness ==
  /\ Returned
  /\ \E k \in Epochs : GapAt(ActivationEpoch, k)
  /\ targetEpoch < DeactivationEpoch
  /\ warmupIters > 0
  /\ result.effective \notin {0, Stake}

WarmupHistoryIsComplete ==
  \A e \in ActivationEpoch..(targetEpoch - 1) :
    /\ HasEntry(e)
    /\ getStakeHistoryEntry(e, stakeHistory).activating > 0

\* C28: the floor of 1 makes every step progress: an iteration of the warmup
\* loop raises the accumulated effective stake by at least 1 (up to the
\* stake), an iteration of the cooldown loop over a nonzero deactivating
\* total lowers it by at least 1 (down to 0), and a call before the
\* deactivation epoch with a history that has an entry with a nonzero
\* activating total for every epoch from the activation epoch to the one
\* before the target epoch returns effective >= min(stake, targetEpoch -
\* activationEpoch), the whole stake once targetEpoch - activationEpoch >=
\* stake.
C28_FloorGuaranteesProgress ==
  /\ [][pc = "warmup" /\ pc' # "threw" =>
          currentEffectiveStake' >= Min(Stake, currentEffectiveStake + 1)]_vars
  /\ [][pc = "cooldown" /\ entry.deactivating > 0 =>
          currentEffectiveStake' <= Max(0, currentEffectiveStake - 1)]_vars
  /\ [](Finished /\ WarmupHistoryIsComplete
          /\ targetEpoch < DeactivationEpoch =>
          /\ Returned
          /\ result.effective >= Min(Stake, targetEpoch - ActivationEpoch)
          /\ targetEpoch - ActivationEpoch >= Stake =>
               result.effective = Stake)

\* A call returned after three warmup steps of the floor of 1 each, with 3
\* of a larger stake effective.
C28_Witness ==
  /\ Returned
  /\ WarmupHistoryIsComplete
  /\ targetEpoch < DeactivationEpoch
  /\ warmupIters = 3
  /\ Stake > 3
  /\ result.effective = 3

\* C29: every call returns a triple and none raises an error, also when the
\* warmup walk consults an entry whose activating total is 0.
C29_EveryCallReturns == Finished => Returned /\ result.status = "ok"

\* C30: for a delegation with activationEpoch < deactivationEpoch, the
\* effective amount a call for a target epoch at or after the deactivation
\* epoch returns is at most the effective amount of every call for an
\* earlier target epoch from the deactivation epoch on, the one for the
\* deactivation epoch included.
C30_CooldownIsMonotone ==
  Returned /\ ActivationEpoch < DeactivationEpoch
           /\ targetEpoch >= DeactivationEpoch =>
    \A t \in DeactivationEpoch..targetEpoch :
      /\ returned[t].status = "ok"
      /\ result.effective <= returned[t].effective

\* The calls for the deactivation epoch and the two epochs after it returned
\* three different effective amounts, in decreasing order.
C30_Witness ==
  /\ Returned
  /\ ActivationEpoch < DeactivationEpoch
  /\ targetEpoch = DeactivationEpoch + 2
  /\ cooldownIters = 2
  /\ returned[DeactivationEpoch].effective >
       returned[DeactivationEpoch + 1].effective
  /\ returned[DeactivationEpoch + 1].effective > result.effective
  /\ result.effective > 0

====
